---- MODULE Spec2Model ----
(***************************************************************************)
(* Patran / Moldflow mesh import: the geometry card parser                 *)
(* (read_pat_buffer) and the result readers (read_ele_buffer,              *)
(* read_xml_buffer, read_nod_buffer) of                                    *)
(*   src/meshio/moldflow/_moldflow.py   (the "strict" variant: cells with  *)
(*                                       no element record are deleted)    *)
(*   src/meshio/patran_io.py            (the "lenient" variant: cells with *)
(*                                       no element record are NaN-filled) *)
(*                                                                         *)
(* A text line is a record [lead, toks, eof]: the number of leading        *)
(* blanks, the whitespace-delimited integer tokens, and whether it is the  *)
(* empty string readline() returns at end of stream.  numpy arrays that    *)
(* are squeezed or stacked are records [shape, flat].                      *)
(***************************************************************************)
EXTENDS Integers, Sequences, FiniteSets, TLC

VARIABLES
    variant,        \* "strict" (_moldflow.py) or "lenient" (patran_io.py)
    deleteRaises,   \* numpy.delete on an out-of-bounds index: raises (TRUE) or ignores it
    scale,          \* read()'s scale factor
    patfile,        \* the geometry stream, a sequence of lines
    status,         \* "init" before read_pat_buffer, then "ok" or "failed"
    points,         \* mesh.points
    cells,          \* mesh.cells: sequence of [type, data], data a sequence of rows
    point_data,     \* mesh.point_data: field name -> array
    cell_data,      \* mesh.cell_data: name -> rows (strict), type -> name -> rows (lenient)
    element_gids,   \* element type -> sequence of global element IDs
    point_gids,     \* sequence of global point IDs
    log             \* the result reads applied so far, oldest first

vars == <<variant, deleteRaises, scale, patfile, status, points, cells,
          point_data, cell_data, element_gids, point_gids, log>>

----------------------------------------------------------------------------
(* Bounds of the model *)

\* cards per geometry stream explored by SpecPat
MaxCards == 3
\* result reads applied to one mesh
MaxReads == 2

----------------------------------------------------------------------------
(* Values *)

\* numpy.nan, the fill sentinel (record values are non-negative)
NaN == -1
\* the None that dict.get returns for a missing key
None == -2
\* range(N - 20) in the strict read_ele_buffer
EleSkip == 20

pat_to_meshio_type ==
    [c \in {2, 3, 4, 5, 7, 8, 9} |->
        CASE c = 2 -> "line"
          [] c = 3 -> "triangle"
          [] c = 4 -> "quad"
          [] c = 5 -> "tetra"
          [] c = 7 -> "wedge"
          [] c = 8 -> "hexa_prism"
          [] c = 9 -> "pyramid"]

Line(lead, toks) == [lead |-> lead, toks |-> toks, eof |-> FALSE]

\* what f.readline() returns at end of stream: the empty string
EOF == [lead |-> 0, toks |-> << >>, eof |-> TRUE]

\* f.readline() at position i of stream f
ReadLine(f, i) == IF i <= Len(f) THEN f[i] ELSE EOF

RECURSIVE FirstDigit(_)
FirstDigit(n) == IF n < 10 THEN n ELSE FirstDigit(n \div 10)

\* line.startswith(" d") for a digit d: one blank, then a field whose first
\* character is d
StartsWith(line, d) ==
    /\ ~line.eof
    /\ line.lead = 1
    /\ Len(line.toks) >= 1
    /\ line.toks[1] >= 0
    /\ FirstDigit(line.toks[1]) = d

----------------------------------------------------------------------------
(* Geometry card parser *)

\* [line[i : i + 16] for i in range(0, len(line), 16)]: the 16-column
\* fields, the last chunk holding the rest of the line (its newline);
\* the empty string has no chunk
Chunks(line) == IF line.eof THEN << >> ELSE Append(line.toks, 0)

\* _read_node: the point read after the card line at position i
ReadNode(f, i, sc) ==
    LET entries == Chunks(ReadLine(f, i + 1))
        kept    == IF entries = << >> THEN << >>
                   ELSE SubSeq(entries, 1, Len(entries) - 1)
    IN  [k \in 1..Len(kept) |-> sc * kept[k]]

RECURSIVE TrimFront(_)
TrimFront(s) ==
    IF s = << >> THEN << >>
    ELSE IF s[1] = 0 THEN TrimFront(Tail(s)) ELSE s

RECURSIVE TrimBack(_)
TrimBack(s) ==
    IF s = << >> THEN << >>
    ELSE IF s[Len(s)] = 0 THEN TrimBack(SubSeq(s, 1, Len(s) - 1)) ELSE s

\* numpy.trim_zeros(lnodes), trim='fb': zeros are trimmed at both ends
TrimZeros(s) == TrimBack(TrimFront(s))

\* _read_cell: one line discarded, the next split into integers and trimmed
ReadCell(f, i) == TrimZeros(ReadLine(f, i + 2).toks)

BlockIndex(cs, key) ==
    IF \E k \in 1..Len(cs) : cs[k].type = key
    THEN CHOOSE k \in 1..Len(cs) : cs[k].type = key
    ELSE 0

\* the while loop of read_pat_buffer from position i on; acc holds points,
\* point_gids, cells (in order of first appearance), element_gids and err
RECURSIVE ScanCards(_, _, _, _)
ScanCards(f, i, sc, acc) ==
    LET line == ReadLine(f, i)
        card_data == line.toks
    IN  IF line.eof \/ acc.err # "" THEN acc
        ELSE IF StartsWith(line, 1) THEN
            IF Len(card_data) < 2
            THEN [acc EXCEPT !.err = "IndexError"]
            ELSE ScanCards(f, i + 3, sc,
                    [acc EXCEPT !.points = Append(@, ReadNode(f, i, sc)),
                                !.point_gids = Append(@, card_data[2])])
        ELSE IF StartsWith(line, 2) THEN
            IF Len(card_data) < 3
            THEN [acc EXCEPT !.err = "IndexError"]
            ELSE IF card_data[3] \notin DOMAIN pat_to_meshio_type
            THEN [acc EXCEPT !.err = "KeyError"]
            ELSE
                LET lnodes == ReadCell(f, i)
                    key == pat_to_meshio_type[card_data[3]]
                    b == BlockIndex(acc.cells, key)
                IN  ScanCards(f, i + 3, sc,
                        IF b # 0
                        THEN [acc EXCEPT
                                !.cells[b].data = Append(@, lnodes),
                                !.element_gids[key] = Append(@, card_data[2])]
                        ELSE [acc EXCEPT
                                !.cells = Append(@, [type |-> key, data |-> <<lnodes>>]),
                                !.element_gids = (key :> <<card_data[2]>>) @@ @])
        ELSE IF StartsWith(line, 4) THEN ScanCards(f, i + 2, sc, acc)
        ELSE ScanCards(f, i + 1, sc, acc)

\* rows of equal length stack into a rectangular array
Rectangular(rows) == \A a, b \in 1..Len(rows) : Len(rows[a]) = Len(rows[b])

\* dict(zip(point_gids, arange(len(point_gids)))).get(g): the 0-based row of
\* the last occurrence of g, None when g is no key
Lookup(pg, g) ==
    IF \E k \in 1..Len(pg) : pg[k] = g
    THEN (CHOOSE k \in 1..Len(pg) :
            pg[k] = g /\ \A j \in (k + 1)..Len(pg) : pg[j] # g) - 1
    ELSE None

\* numpy.vectorize(lookup_table.get)(block): the output type is taken from
\* the result for the first element.  An integer there makes every None a
\* TypeError; a None there gives an object array that keeps every None.
VectLookup(pg, rows) ==
    IF rows = << >> \/ rows[1] = << >>
    THEN [err |-> "ValueError", data |-> rows]
    ELSE LET out == [r \in 1..Len(rows) |->
                        [c \in 1..Len(rows[r]) |-> Lookup(pg, rows[r][c])]]
             missing == \E r \in 1..Len(rows) :
                            \E c \in 1..Len(rows[r]) : out[r][c] = None
         IN  IF out[1][1] # None /\ missing
             THEN [err |-> "TypeError", data |-> rows]
             ELSE [err |-> "", data |-> out]

\* _scan_cells: every block rewritten from global point IDs to rows
ScanCells(pg, cs) ==
    LET res == [k \in 1..Len(cs) |-> VectLookup(pg, cs[k].data)]
    IN  IF \E k \in 1..Len(cs) : res[k].err # ""
        THEN [err |-> res[CHOOSE k \in 1..Len(cs) : res[k].err # ""].err,
              cells |-> cs]
        ELSE [err |-> "",
              cells |-> [k \in 1..Len(cs) |->
                            [type |-> cs[k].type, data |-> res[k].data]]]

EmptyFcn == [x \in {} |-> 0]

\* the card loop of read_pat_buffer from the first line, with the empty
\* cells, points, point_gids and element_gids it starts from
RawScan(f, sc) ==
    ScanCards(f, 1, sc,
              [points |-> << >>, point_gids |-> << >>, cells |-> << >>,
               element_gids |-> EmptyFcn, err |-> ""])

\* read_pat_buffer(f, scale): the mesh and the two global-ID tables, or err
ReadPatBuffer(f, sc) ==
    LET acc == RawScan(f, sc)
        stacked == \A k \in 1..Len(acc.cells) : Rectangular(acc.cells[k].data)
        scanned == ScanCells(acc.point_gids, acc.cells)
        err == IF acc.err # "" THEN acc.err
               ELSE IF ~stacked \/ ~Rectangular(acc.points) THEN "ValueError"
               ELSE scanned.err
    IN  [err |-> err,
         points |-> acc.points,
         cells |-> scanned.cells,
         element_gids |-> acc.element_gids,
         point_gids |-> acc.point_gids]

----------------------------------------------------------------------------
(* numpy arrays with a shape *)

Arr(shape, flat) == [shape |-> shape, flat |-> flat]

RECURSIVE Flatten(_)
Flatten(rows) ==
    IF rows = << >> THEN << >> ELSE rows[1] \o Flatten(Tail(rows))

RECURSIVE DropOnes(_)
DropOnes(shape) ==
    IF shape = << >> THEN << >>
    ELSE IF shape[1] = 1 THEN DropOnes(Tail(shape))
    ELSE <<shape[1]>> \o DropOnes(Tail(shape))

\* numpy.squeeze: every axis of length one is removed, the data kept
Squeeze(a) == Arr(DropOnes(a.shape), a.flat)

\* numpy.atleast_2d, as numpy.vstack applies it to each operand
AtLeast2d(a) ==
    IF Len(a.shape) = 0 THEN Arr(<<1, 1>>, a.flat)
    ELSE IF Len(a.shape) = 1 THEN Arr(<<1, a.shape[1]>>, a.flat)
    ELSE a

\* numpy.vstack((a, b)): err when the row lengths differ
VStack(a, b) ==
    LET a2 == AtLeast2d(a)
        b2 == AtLeast2d(b)
    IN  IF a2.shape[2] # b2.shape[2]
        THEN [err |-> "ValueError", arr |-> a]
        ELSE [err |-> "",
              arr |-> Arr(<<a2.shape[1] + b2.shape[1], a2.shape[2]>>,
                          a.flat \o b.flat)]

\* numpy.nan * numpy.ones(order)
NanOnes(order) == [k \in 1..order |-> NaN]

----------------------------------------------------------------------------
(* Result files *)

\* name.replace(" ", "_").rstrip("\n") on the names the model draws
Normalise(raw) == IF raw = "Fill time" THEN "Fill_time" ELSE raw

\* data[ID] = values over the records in order: the last record of an ID wins
DictOf(recs) ==
    [g \in {recs[k].id : k \in 1..Len(recs)} |->
        recs[CHOOSE k \in 1..Len(recs) :
                recs[k].id = g /\ \A j \in (k + 1)..Len(recs) : recs[j].id # g].values]

\* the field name of an XML block: the base name, or
\* "%s_Block:%s_%s:%s%s" when the block has an IndpVar
BlockName(base_name, block) ==
    IF block.indep
    THEN <<base_name, "_Block:", block.idx, "_", block.iname, ":",
           block.ivalue, block.iunit>>
    ELSE <<base_name>>

\* every Data item of every Layer of a block, in document order
BlockRecords(block) == Flatten(block.layers)

----------------------------------------------------------------------------
(* Element-keyed matching, strict variant (_moldflow.py) *)

\* 0-based positions of element_gids[type] with no record in data
DelPos(gids, data) == {k - 1 : k \in {j \in 1..Len(gids) : gids[j] \notin DOMAIN data}}

RECURSIVE Matched(_, _)
\* data[gid] for every gid of gids that has a record, in order
Matched(gids, data) ==
    IF gids = << >> THEN << >>
    ELSE (IF gids[1] \in DOMAIN data THEN <<data[gids[1]]>> ELSE << >>)
         \o Matched(Tail(gids), data)

RECURSIVE KeepRows(_, _, _)
\* rows without those at the 0-based positions del; k is the position of rows[1]
KeepRows(rows, del, k) ==
    IF rows = << >> THEN << >>
    ELSE (IF k \in del THEN << >> ELSE <<rows[1]>>) \o KeepRows(Tail(rows), del, k + 1)

\* numpy.delete(rows, del_pos, axis=0): a position past the end raises
\* IndexError or is ignored, depending on the numpy release
NumpyDelete(rows, del, raises) ==
    IF raises /\ \E p \in del : p >= Len(rows)
    THEN [err |-> "IndexError", rows |-> rows]
    ELSE [err |-> "", rows |-> KeepRows(rows, del, 0)]

RECURSIVE StrictBlocks(_, _, _, _, _)
\* the loop over mesh.cells from block i on: rows deleted block by block,
\* stopping at the first block whose delete raises
StrictBlocks(cs, i, egids, data, raises) ==
    IF i > Len(cs) THEN [err |-> "", cells |-> cs]
    ELSE LET d == NumpyDelete(cs[i].data, DelPos(egids[cs[i].type], data), raises)
         IN  IF d.err # "" THEN [err |-> d.err, cells |-> cs]
             ELSE StrictBlocks([cs EXCEPT ![i].data = d.rows], i + 1, egids, data, raises)

RECURSIVE DataList(_, _, _, _)
\* data_list: the matched records of every block, concatenated in block order
DataList(cs, i, egids, data) ==
    IF i > Len(cs) THEN << >>
    ELSE Matched(egids[cs[i].type], data) \o DataList(cs, i + 1, egids, data)

\* StrictElementPass that also drops the unmatched IDs from element_gids
StrictElementPassPruning(m, egids, name, data, raises) ==
    LET b == StrictBlocks(m.cells, 1, egids, data, raises)
    IN  IF b.err # ""
        THEN [m EXCEPT !.cells = b.cells, !.err = b.err]
        ELSE [m EXCEPT !.cells = b.cells,
                       !.cell_data = (name :> DataList(m.cells, 1, egids, data)) @@ @,
                       !.element_gids = [t \in DOMAIN egids |->
                                            SelectSeq(egids[t], LAMBDA g : g \in DOMAIN data)]]

\* lines 119-133 and 177-192 of _moldflow.py: the element-keyed pass over m
StrictElementPass(m, egids, name, data, raises) ==
    LET b == StrictBlocks(m.cells, 1, egids, data, raises)
    IN  IF b.err # ""
        THEN [m EXCEPT !.cells = b.cells, !.err = b.err]
        ELSE [m EXCEPT !.cells = b.cells,
                       !.cell_data = (name :> DataList(m.cells, 1, egids, data)) @@ @]

----------------------------------------------------------------------------
(* Element-keyed matching, lenient variant (patran_io.py) *)

RECURSIVE LenientGids(_, _, _, _, _)
\* the loop over element_gids[elem_type]: one value appended per gid to
\* fields[name], which is created by the first gid when it does not exist
LenientGids(fields, gids, name, data, order) ==
    IF gids = << >> THEN fields
    ELSE LET values == IF gids[1] \in DOMAIN data THEN data[gids[1]] ELSE NanOnes(order)
             next == IF name \in DOMAIN fields
                     THEN [fields EXCEPT ![name] = Append(@, values)]
                     ELSE (name :> <<values>>) @@ fields
         IN  LenientGids(next, Tail(gids), name, data, order)

RECURSIVE LenientTypes(_, _, _, _, _, _, _)
\* the loop over mesh.cells.keys() from block i on
LenientTypes(cd, cs, i, egids, name, data, order) ==
    IF i > Len(cs) THEN cd
    ELSE LET t == cs[i].type
             cd1 == IF t \in DOMAIN cd THEN cd ELSE (t :> EmptyFcn) @@ cd
             cd2 == [cd1 EXCEPT ![t] = LenientGids(@, egids[t], name, data, order)]
         IN  LenientTypes(cd2, cs, i + 1, egids, name, data, order)

\* lines 119-130 and 177-189 of patran_io.py
LenientElementPass(m, egids, name, data, order) ==
    [m EXCEPT !.cell_data = LenientTypes(@, m.cells, 1, egids, name, data, order)]

----------------------------------------------------------------------------
(* The result readers.  A mesh in flight is m = [cells, cell_data,          *)
(* point_data, element_gids, point_gids, err]: the two tables are passed by *)
(* reference next to the mesh, so what a reader leaves in them is part of   *)
(* its effect.  A result input is r = [kind, name, declared, order, recs,   *)
(* dtype, blocks].                                                          *)

\* the dictionary data of read_ele_buffer: range(n) readline() calls, each
\* split and indexed; an exhausted stream makes line[0] an IndexError
EleData(r, n) ==
    IF n > Len(r.recs) THEN [err |-> "IndexError", data |-> EmptyFcn]
    ELSE [err |-> "", data |-> DictOf(SubSeq(r.recs, 1, IF n < 0 THEN 0 ELSE n))]

\* read_ele_buffer of _moldflow.py
ReadEleBufferStrict(m, r, raises) ==
    LET name == <<Normalise(r.name)>>
        d == EleData(r, r.declared - EleSkip)
    IN  IF d.err # "" THEN [m EXCEPT !.err = d.err]
        ELSE StrictElementPass(m, m.element_gids, name, d.data, raises)

\* read_ele_buffer of patran_io.py
ReadEleBufferLenient(m, r) ==
    LET name == <<Normalise(r.name)>>
        d == EleData(r, r.declared)
    IN  IF d.err # "" THEN [m EXCEPT !.err = d.err]
        ELSE LenientElementPass(m, m.element_gids, name, d.data, r.order)

RECURSIVE NodeRowsByPosition(_, _, _, _)
\* NodeRows with the record written to the row of its position in the file
\* instead of the row node_id_map gives its ID
NodeRowsByPosition(rows, recs, i, pg) ==
    IF i > Len(pg) \/ i > Len(recs) THEN [err |-> "", rows |-> rows]
    ELSE IF Lookup(pg, recs[i].id) = None THEN [err |-> "KeyError", rows |-> rows]
    ELSE NodeRowsByPosition([rows EXCEPT ![i] = recs[i].values], recs, i + 1, pg)

RECURSIVE NodeRows(_, _, _, _)
\* the loop "for i in range(N)" of read_nod_buffer from record i on: rows is
\* the array, a record of an ID that is no point raises KeyError
NodeRows(rows, recs, i, pg) ==
    IF i > Len(pg) \/ i > Len(recs) THEN [err |-> "", rows |-> rows]
    ELSE LET line == Lookup(pg, recs[i].id)
         IN  IF line = None THEN [err |-> "KeyError", rows |-> rows]
             ELSE NodeRows([rows EXCEPT ![line + 1] = recs[i].values], recs, i + 1, pg)

\* read_nod_buffer (the same in both files): point_data is replaced
ReadNodBuffer(m, r) ==
    LET name == <<Normalise(r.name)>>
        N == Len(m.point_gids)
        filled == NodeRows([k \in 1..N |-> NanOnes(r.order)], r.recs, 1, m.point_gids)
    IN  IF filled.err # "" THEN [m EXCEPT !.err = filled.err]
        ELSE [m EXCEPT !.point_data =
                (name :> Squeeze(Arr(<<N, r.order>>, Flatten(filled.rows))))]

\* the NDDT branch of _moldflow.py: one row per point, the field replaced
NodeBlockStrict(m, name, data, order) ==
    LET pg == m.point_gids
        data_list == [k \in 1..Len(pg) |->
                        IF pg[k] \in DOMAIN data THEN data[pg[k]] ELSE NanOnes(order)]
        array == IF pg = << >> THEN Arr(<<0>>, << >>)
                 ELSE Arr(<<Len(pg), order>>, Flatten(data_list))
    IN  [m EXCEPT !.point_data = (name :> Squeeze(array)) @@ @]

RECURSIVE NodeStackLenient(_, _, _, _, _)
\* the NDDT loop of patran_io.py over point_gids: the first value creates the
\* field when it does not exist, every other one is vstack-ed under it
NodeStackLenient(pd, gids, name, data, order) ==
    IF gids = << >> THEN [err |-> "", pd |-> pd]
    ELSE LET values == Arr(<<order>>,
                           IF gids[1] \in DOMAIN data THEN data[gids[1]]
                           ELSE NanOnes(order))
         IN  IF name \in DOMAIN pd
             THEN LET st == VStack(pd[name], values)
                  IN  IF st.err # "" THEN [err |-> st.err, pd |-> pd]
                      ELSE NodeStackLenient([pd EXCEPT ![name] = st.arr],
                                            Tail(gids), name, data, order)
             ELSE NodeStackLenient((name :> values) @@ pd, Tail(gids), name, data, order)

\* the NDDT branch of patran_io.py, ending in the squeeze of the field
NodeBlockLenient(m, name, data, order) ==
    LET st == NodeStackLenient(m.point_data, m.point_gids, name, data, order)
    IN  IF st.err # "" THEN [m EXCEPT !.point_data = st.pd, !.err = st.err]
        ELSE IF name \notin DOMAIN st.pd THEN [m EXCEPT !.err = "KeyError"]
        ELSE [m EXCEPT !.point_data = [st.pd EXCEPT ![name] = Squeeze(@)]]

\* one Block of read_xml_buffer in variant v
XmlBlock(m, r, block, v, raises) ==
    LET name == BlockName(Normalise(r.name), block)
        data == DictOf(BlockRecords(block))
    IN  IF r.dtype = "ELDT"
        THEN IF v = "strict"
             THEN StrictElementPass(m, m.element_gids, name, data, raises)
             ELSE LenientElementPass(m, m.element_gids, name, data, r.order)
        ELSE IF r.dtype = "NDDT"
        THEN IF v = "strict"
             THEN NodeBlockStrict(m, name, data, r.order)
             ELSE NodeBlockLenient(m, name, data, r.order)
        ELSE m

RECURSIVE XmlBlocks(_, _, _, _, _)
\* "for block in blocks.findall("Block")" from block i on
XmlBlocks(m, r, i, v, raises) ==
    IF i > Len(r.blocks) \/ m.err # "" THEN m
    ELSE XmlBlocks(XmlBlock(m, r, r.blocks[i], v, raises), r, i + 1, v, raises)

\* read_xml_buffer
ReadXmlBuffer(m, r, v, raises) == XmlBlocks(m, r, 1, v, raises)

\* one result read, dispatched as read() does
ApplyRead(m, r, v, raises) ==
    IF r.kind = "ele"
    THEN IF v = "strict" THEN ReadEleBufferStrict(m, r, raises)
         ELSE ReadEleBufferLenient(m, r)
    ELSE IF r.kind = "xml" THEN ReadXmlBuffer(m, r, v, raises)
    ELSE ReadNodBuffer(m, r)

----------------------------------------------------------------------------
(* Inputs *)

Variants == {"strict", "lenient"}
Scales == {2}

\* a node card: the card line, the coordinate line, the attribute line
NodeCard(lead, type, gid) ==
    << Line(lead, <<type, gid, 0, 2>>),
       Line(0, <<gid, gid + 1, 0>>),
       Line(0, <<0, 0, 0>>) >>

\* an element card: the card line, the auxiliary line, the connectivity line
ElemCard(gid, shape, lnodes) ==
    << Line(1, <<2, gid, shape, 2>>),
       Line(0, <<Len(lnodes), 0, 0>>),
       Line(0, lnodes) >>

\* a property card and its one data line
SkipCard == << Line(1, <<4, 1, 0, 1>>), Line(0, <<0, 0>>) >>

\* a title card (packet 25, written in columns 1-2)
OtherCard == << Line(0, <<25, 0, 0, 1>>) >>

\* connectivity lines: plain, zero-padded at the end, zero at the front,
\* zero inside, unknown point first, unknown point later, zeros only
ConnLines ==
    { <<10, 20, 10>>, <<10, 20, 10, 0, 0>>, <<0, 10, 20>>, <<10, 0, 20>>,
      <<30, 10, 10>>, <<10, 30, 10>>, <<0, 0, 0>> }

\* a summary card (packet 10) written after one blank
TenCard == << Line(1, <<10, 30, 0, 1>>) >>

PatCards ==
    { NodeCard(1, 1, 10), NodeCard(1, 1, 20), SkipCard, OtherCard,
      NodeCard(2, 1, 30), TenCard,
      ElemCard(100, 2, <<10, 20>>), ElemCard(100, 6, <<10, 20, 10>>) }
    \cup { ElemCard(100, 3, c) : c \in ConnLines }

RECURSIVE CardSeqs(_)
\* the streams of at most n cards
CardSeqs(n) ==
    IF n = 0 THEN { << >> }
    ELSE LET shorter == CardSeqs(n - 1)
         IN  shorter \cup { f \o c : f \in shorter, c \in PatCards }

\* a stream, whole or cut one or two lines before its end
Truncations(f) == { SubSeq(f, 1, Len(f) - k) : k \in 0..(IF Len(f) < 2 THEN Len(f) ELSE 2) }

PatFiles == UNION { Truncations(f) : f \in CardSeqs(MaxCards) }

\* the geometries the result readers are run on: well-formed streams with
\* unique global IDs per table
GeoFiles ==
    { NodeCard(1, 1, 10) \o NodeCard(1, 1, 20)
        \o ElemCard(100, 3, <<10, 20, 10>>) \o ElemCard(200, 3, <<20, 10, 20, 0>>),
      NodeCard(1, 1, 20) \o NodeCard(1, 1, 10) \o SkipCard
        \o ElemCard(200, 3, <<10, 20, 10>>) \o ElemCard(100, 2, <<10, 20>>)
        \o ElemCard(100, 3, <<20, 20, 10>>),
      NodeCard(1, 1, 10) \o OtherCard \o ElemCard(100, 3, <<10, 10, 10>>) }

Names == {"Stress", "Fill time"}
OrderOf(name) == IF name = "Stress" THEN 3 ELSE 1

\* the record "<id> <order floats>" the model writes for an ID
Rec(id, order) ==
    [id |-> id,
     values |-> [c \in 1..order |-> ((id \div (IF id < 100 THEN 10 ELSE 100)) - 1) * order + c]]

Recs(ids, order) == [k \in 1..Len(ids) |-> Rec(ids[k], order)]

ResultInput(kind, name, declared, recs, dtype, blocks) ==
    [kind |-> kind, name |-> name, declared |-> declared, order |-> OrderOf(name),
     recs |-> recs, dtype |-> dtype, blocks |-> blocks]

\* element files: the count of header line 2 is the number of records, or
\* that number plus EleSkip
EleFiles ==
    { ResultInput("ele", n, Len(ids) + d, Recs(ids, OrderOf(n)), "", << >>) :
        n \in Names, ids \in { <<100>>, <<200>>, <<100, 200>> }, d \in {0, EleSkip} }

\* node files: complete, ending early, or naming a point 30
NodFiles ==
    { ResultInput("nod", n, Len(ids), Recs(ids, OrderOf(n)), "", << >>) :
        n \in Names, ids \in { <<10>>, <<20, 10>>, <<10, 30>> } }

PlainBlock(layers) ==
    [indep |-> FALSE, idx |-> "", iname |-> "", ivalue |-> "", iunit |-> "",
     layers |-> layers]

IndepBlock(idx, value, layers) ==
    [indep |-> TRUE, idx |-> idx, iname |-> "Time", ivalue |-> value, iunit |-> "s",
     layers |-> layers]

\* the Blocks of an XML document keyed by IDs a and b: one block of two
\* layers, one block without a, two blocks of the same name, two blocks
\* told apart by their IndpVar
BlockSeqs(a, b, order) ==
    { << PlainBlock(<< Recs(<<a>>, order), Recs(<<b>>, order) >>) >>,
      << PlainBlock(<< Recs(<<b>>, order) >>) >>,
      << PlainBlock(<< Recs(<<a, b>>, order) >>), PlainBlock(<< Recs(<<a>>, order) >>) >>,
      << IndepBlock("1", "0.5", << Recs(<<a, b>>, order) >>),
         IndepBlock("2", "1.5", << Recs(<<a>>, order) >>) >> }

XmlFiles ==
    UNION { { ResultInput("xml", n, 0, << >>, "ELDT", bs) :
                bs \in BlockSeqs(100, 200, OrderOf(n)) } : n \in Names }
    \cup UNION { { ResultInput("xml", n, 0, << >>, "NDDT", bs) :
                bs \in BlockSeqs(10, 20, OrderOf(n)) } : n \in Names }
    \cup { ResultInput("xml", "Stress", 0, << >>, "SCLR",
                       << PlainBlock(<< Recs(<<10, 20>>, 3) >>) >>) }

----------------------------------------------------------------------------
(* The state machine *)

\* the mesh and tables as the readers take them
Mesh ==
    [cells |-> cells, cell_data |-> cell_data, point_data |-> point_data,
     element_gids |-> element_gids, point_gids |-> point_gids, err |-> ""]

InitMesh ==
    /\ status = "init"
    /\ points = << >>
    /\ cells = << >>
    /\ point_data = EmptyFcn
    /\ cell_data = EmptyFcn
    /\ element_gids = EmptyFcn
    /\ point_gids = << >>
    /\ log = << >>

\* a geometry stream that parses, before read_pat_buffer
Init ==
    /\ variant \in Variants
    /\ deleteRaises \in (IF variant = "strict" THEN BOOLEAN ELSE {FALSE})
    /\ scale \in Scales
    /\ patfile \in GeoFiles
    /\ InitMesh

\* any geometry stream of at most MaxCards cards, before read_pat_buffer
InitPat ==
    /\ variant \in Variants
    /\ deleteRaises = FALSE
    /\ scale \in Scales
    /\ patfile \in PatFiles
    /\ InitMesh

\* mesh, element_gids, point_gids = read_pat_buffer(f, scale)
ReadPat ==
    /\ status = "init"
    /\ LET res == ReadPatBuffer(patfile, scale)
       IN  IF res.err = ""
           THEN /\ status' = "ok"
                /\ points' = res.points
                /\ cells' = res.cells
                /\ element_gids' = res.element_gids
                /\ point_gids' = res.point_gids
           ELSE /\ status' = "failed"
                /\ UNCHANGED <<points, cells, element_gids, point_gids>>
    /\ UNCHANGED <<variant, deleteRaises, scale, patfile, point_data, cell_data, log>>

\* mesh = read_..._buffer(..., mesh, ...) with result input r
DoRead(r) ==
    /\ status = "ok"
    /\ Len(log) < MaxReads
    /\ LET m == ApplyRead(Mesh, r, variant, deleteRaises)
       IN  /\ status' = IF m.err = "" THEN "ok" ELSE "failed"
           /\ cells' = m.cells
           /\ cell_data' = m.cell_data
           /\ point_data' = m.point_data
           /\ element_gids' = m.element_gids
           /\ point_gids' = m.point_gids
    /\ log' = Append(log, r)
    /\ UNCHANGED <<variant, deleteRaises, scale, patfile, points>>

\* read() with an element file: mesh = read_ele_buffer(f, mesh, element_gids)
ReadEle ==
    /\ status = "ok"
    /\ \E r \in EleFiles : DoRead(r)

\* read() with an XML file: mesh = read_xml_buffer(path, mesh, element_gids, point_gids)
ReadXml ==
    /\ status = "ok"
    /\ \E r \in XmlFiles : DoRead(r)

\* read() with a node file: mesh = read_nod_buffer(f, mesh, point_gids)
ReadNod ==
    /\ status = "ok"
    /\ \E r \in NodFiles : DoRead(r)

Next == ReadPat \/ ReadEle \/ ReadXml \/ ReadNod

Spec == Init /\ [][Next]_vars

NextPat == ReadPat

SpecPat == InitPat /\ [][NextPat]_vars

----------------------------------------------------------------------------
(* What the claims are stated over *)

\* what read_pat_buffer made of the geometry stream
Parsed == ReadPatBuffer(patfile, scale)

\* the mesh read_pat_buffer returned, before any result read
Mesh0 ==
    [cells |-> Parsed.cells, cell_data |-> EmptyFcn, point_data |-> EmptyFcn,
     element_gids |-> Parsed.element_gids, point_gids |-> Parsed.point_gids, err |-> ""]

LastRead == log[Len(log)]

IdsOf(recs) == {recs[k].id : k \in 1..Len(recs)}

\* the record of ID g in recs (the model's files name an ID at most once)
RecordOf(recs, g) == recs[CHOOSE k \in 1..Len(recs) : recs[k].id = g].values

ElementKeyed(r) == r.kind = "ele" \/ (r.kind = "xml" /\ r.dtype = "ELDT" /\ r.blocks # << >>)

\* the ID sets of the element-keyed passes of a read: one for an element
\* file, one per Block for an ELDT document
PassIds(r) ==
    IF r.kind = "ele" THEN << IdsOf(r.recs) >>
    ELSE IF r.kind = "xml" /\ r.dtype = "ELDT"
    THEN [b \in 1..Len(r.blocks) |-> IdsOf(BlockRecords(r.blocks[b]))]
    ELSE << >>

RECURSIVE AllPasses(_)
AllPasses(l) == IF l = << >> THEN << >> ELSE PassIds(l[1]) \o AllPasses(Tail(l))

\* a cell survives when every element-keyed pass so far had a record for it
Survives(g) == \A p \in 1..Len(AllPasses(log)) : g \in AllPasses(log)[p]

RECURSIVE RowsOfSurvivors(_, _)
RowsOfSurvivors(rows, gids) ==
    IF rows = << >> THEN << >>
    ELSE (IF Survives(gids[1]) THEN <<rows[1]>> ELSE << >>)
         \o RowsOfSurvivors(Tail(rows), Tail(gids))

\* the blocks of the parsed mesh without the cells that did not survive
ExpectedCells ==
    [k \in 1..Len(Parsed.cells) |->
        [type |-> Parsed.cells[k].type,
         data |-> RowsOfSurvivors(Parsed.cells[k].data,
                                  Parsed.element_gids[Parsed.cells[k].type])]]

\* the records and the field name of the last element-keyed pass
LastPassRecs ==
    IF LastRead.kind = "ele" THEN LastRead.recs
    ELSE BlockRecords(LastRead.blocks[Len(LastRead.blocks)])

LastPassName ==
    IF LastRead.kind = "ele" THEN <<Normalise(LastRead.name)>>
    ELSE BlockName(Normalise(LastRead.name), LastRead.blocks[Len(LastRead.blocks)])

RECURSIVE RecordsOfSurvivors(_)
RecordsOfSurvivors(gids) ==
    IF gids = << >> THEN << >>
    ELSE (IF Survives(gids[1]) THEN <<RecordOf(LastPassRecs, gids[1])>> ELSE << >>)
         \o RecordsOfSurvivors(Tail(gids))

RECURSIVE ExpectedField(_)
\* the records of the surviving cells in concatenated block order, from block k on
ExpectedField(k) ==
    IF k > Len(Parsed.cells) THEN << >>
    ELSE RecordsOfSurvivors(Parsed.element_gids[Parsed.cells[k].type])
         \o ExpectedField(k + 1)

\* element files whose records the strict reader consumes to the last one
ReadWhole(r) == r.kind = "ele" => r.declared - EleSkip = Len(r.recs)

----------------------------------------------------------------------------
(* C1: in the strict variant, after read_pat_buffer and any sequence of    *)
(* result reads, every element type of the mesh has as many global IDs in  *)
(* element_gids as its cell block has rows.                                *)
C1_GidsMatchRows ==
    (variant = "strict" /\ status = "ok") =>
        \A k \in 1..Len(cells) :
            Len(element_gids[cells[k].type]) = Len(cells[k].data)

(* C2: in the strict variant, after every element-keyed read (the first    *)
(* and every later one) exactly the cells with no record are gone from     *)
(* their block, and the k-th entry of the field just written is the record *)
(* of the k-th surviving cell in concatenated block order.                 *)
C2_DeletionAligned ==
    (/\ variant = "strict"
     /\ status = "ok"
     /\ log # << >>
     /\ ElementKeyed(LastRead)
     /\ \A i \in 1..Len(log) : ReadWhole(log[i])) =>
        /\ cells = ExpectedCells
        /\ LastPassName \in DOMAIN cell_data
        /\ cell_data[LastPassName] = ExpectedField(1)

\* one entry per point: the first axis has one entry per point, a lone
\* point's row or scalar being what numpy.squeeze leaves of a one-row array
OnePerPoint(a, n) ==
    IF n = 1 THEN Len(a.shape) <= 1
    ELSE Len(a.shape) >= 1 /\ a.shape[1] = n

(* C3: in the lenient variant, after read_pat_buffer and any sequence of   *)
(* result reads (also reads that resolve to the same field name), every    *)
(* cell field of a type has one entry per cell of the type, every point    *)
(* field one entry per point, and no cell row is deleted.                  *)
C3_OneEntryPerCell ==
    (variant = "lenient" /\ status = "ok") =>
        /\ cells = Parsed.cells
        /\ \A k \in 1..Len(cells) :
              cells[k].type \in DOMAIN cell_data =>
                  \A n \in DOMAIN cell_data[cells[k].type] :
                      Len(cell_data[cells[k].type][n]) = Len(cells[k].data)
        /\ \A n \in DOMAIN point_data : OnePerPoint(point_data[n], Len(points))

\* the field entry that cell j of block k carries after one element file r
CarriedStrict(k, j, r) ==
    LET before == Len(DataList(Parsed.cells, 1, Parsed.element_gids, DictOf(r.recs)))
                  - Len(DataList(Parsed.cells, k, Parsed.element_gids, DictOf(r.recs)))
        gids == Parsed.element_gids[Parsed.cells[k].type]
        rank == Cardinality({i \in 1..j : gids[i] \in IdsOf(r.recs)})
        name == <<Normalise(r.name)>>
    IN  /\ name \in DOMAIN cell_data
        /\ before + rank <= Len(cell_data[name])
        /\ cell_data[name][before + rank] = RecordOf(r.recs, gids[j])
        /\ rank <= Len(cells[k].data)
        /\ cells[k].data[rank] = Parsed.cells[k].data[j]

CarriedLenient(k, j, r) ==
    LET t == Parsed.cells[k].type
        name == <<Normalise(r.name)>>
    IN  /\ t \in DOMAIN cell_data
        /\ name \in DOMAIN cell_data[t]
        /\ j <= Len(cell_data[t][name])
        /\ cell_data[t][name][j] = RecordOf(r.recs, Parsed.element_gids[t][j])

(* C4: read_ele_buffer consumes the number of records that the first token *)
(* of header line 2 declares, so that every element named by one of those  *)
(* records carries the record's values in the new cell field (one triangle *)
(* 100 and a file "Stress" of one record "100 1.0 2.0 3.0": one triangle,  *)
(* Stress = [1.0, 2.0, 3.0]).                                              *)
C4_DeclaredRecordsCarried ==
    (/\ status = "ok"
     /\ Len(log) = 1
     /\ log[1].kind = "ele"
     /\ log[1].declared = Len(log[1].recs)) =>
        \A k \in 1..Len(Parsed.cells) :
            \A j \in 1..Len(Parsed.cells[k].data) :
                Parsed.element_gids[Parsed.cells[k].type][j] \in IdsOf(log[1].recs) =>
                    IF variant = "strict" THEN CarriedStrict(k, j, log[1])
                    ELSE CarriedLenient(k, j, log[1])

\* the field names a result read writes
NamesWritten(r) ==
    IF r.kind = "xml"
    THEN IF r.dtype \in {"ELDT", "NDDT"}
         THEN {BlockName(Normalise(r.name), r.blocks[b]) : b \in 1..Len(r.blocks)}
         ELSE {}
    ELSE {<<Normalise(r.name)>>}

\* the two reads of the log applied to the parsed mesh in the other order
Swapped == ApplyRead(ApplyRead(Mesh0, log[2], variant, deleteRaises),
                     log[1], variant, deleteRaises)

\* two reads of distinct field names were applied, and both orders complete
TwoDisjointReads ==
    /\ status = "ok"
    /\ Len(log) = 2
    /\ NamesWritten(log[1]) \cap NamesWritten(log[2]) = {}
    /\ Swapped.err = ""

(* C6: result reads that write distinct field names do not                 *)
(* interact: any two of them applied to the mesh of read_pat_buffer in     *)
(* either order yield the same point data, cell data and cell blocks.      *)
C6_ReadsCommute ==
    TwoDisjointReads =>
        /\ point_data = Swapped.point_data
        /\ cell_data = Swapped.cell_data
        /\ cells = Swapped.cells

\* the values the field a holds for the point of row k (k from 1), whatever
\* axes numpy.squeeze removed
RowOf(a, k, order) == SubSeq(a.flat, (k - 1) * order + 1, k * order)

(* C7: after read_nod_buffer, the row of every point whose global ID has a *)
(* record in the node file holds exactly that record's values, and the row *)
(* of every other point (also when the stream ends early) is all NaN.      *)
C7_NodeFill ==
    (status = "ok" /\ log # << >> /\ LastRead.kind = "nod") =>
        LET name == <<Normalise(LastRead.name)>>
        IN  /\ name \in DOMAIN point_data
            /\ Len(point_data[name].flat) = Len(point_gids) * LastRead.order
            /\ \A k \in 1..Len(point_gids) :
                  RowOf(point_data[name], k, LastRead.order) =
                      IF point_gids[k] \in IdsOf(LastRead.recs)
                      THEN RecordOf(LastRead.recs, point_gids[k])
                      ELSE NanOnes(LastRead.order)

\* a node file that ends early and lists the points against their row order:
\* one row filled from its record, one row left NaN
C7_Witness ==
    /\ status = "ok" /\ log # << >> /\ LastRead.kind = "nod"
    /\ Len(point_gids) = 2
    /\ point_gids[2] \in IdsOf(LastRead.recs)
    /\ point_gids[1] \notin IdsOf(LastRead.recs)
    /\ Len(LastRead.recs) < Len(point_gids)

(* C10: the global-ID tables are read-only after geometry parsing: no      *)
(* result read of either variant, in any sequence, changes element_gids of *)
(* any type or point_gids.                                                 *)
C10_TablesReadOnly ==
    log # << >> =>
        /\ element_gids = Parsed.element_gids
        /\ point_gids = Parsed.point_gids

\* a strict read deleted rows, and the tables are those of the parser
C10_Witness ==
    /\ log # << >>
    /\ variant = "strict"
    /\ status = "ok"
    /\ \E k \in 1..Len(cells) : Len(cells[k].data) < Len(element_gids[cells[k].type])

----------------------------------------------------------------------------
(* Claims about the geometry parser, over SpecPat *)

\* a connectivity entry of a scanned cell names a point that is in no node card
Dangling ==
    LET acc == RawScan(patfile, scale)
    IN  /\ acc.err = ""
        /\ \E k \in 1..Len(acc.cells) :
              \E r \in 1..Len(acc.cells[k].data) :
                  \E c \in 1..Len(acc.cells[k].data[r]) :
                      \A p \in 1..Len(acc.point_gids) :
                          acc.point_gids[p] # acc.cells[k].data[r][c]

(* C5: a cell whose connectivity names a point ID that is not in           *)
(* point_gids makes read_pat_buffer fail and return no mesh; whenever a    *)
(* mesh is returned, every connectivity index lies in [0, len(points)).    *)
C5_NoDanglingIndex ==
    /\ (status # "init" /\ Dangling) => status = "failed"
    /\ status = "ok" =>
          \A k \in 1..Len(cells) :
              \A r \in 1..Len(cells[k].data) :
                  \A c \in 1..Len(cells[k].data[r]) :
                      cells[k].data[r][c] \in 0..(Len(points) - 1)

\* the tokens up to the last one that is not zero
WithoutTrailingZeros(toks) ==
    LET nz == {k \in 1..Len(toks) : toks[k] # 0}
    IN  IF nz = {} THEN << >>
        ELSE SubSeq(toks, 1, CHOOSE k \in nz : \A j \in nz : j <= k)

(* C8: _read_cell returns the integer tokens of the connectivity line      *)
(* without the trailing run of zeros, every other token kept in its place  *)
(* ("5 6 7 0 0" gives [5, 6, 7]); zeros elsewhere are not removed.         *)
C8_TrailingZerosOnly ==
    status # "init" =>
        \A i \in 1..Len(patfile) :
            (StartsWith(patfile[i], 2) /\ i + 2 <= Len(patfile)) =>
                ReadCell(patfile, i) = WithoutTrailingZeros(patfile[i + 2].toks)

RECURSIVE EndsMidCard(_, _)
\* the stream ends after the line of a node or element card that the card
\* loop reaches at position i or later, before the card's two further lines
EndsMidCard(f, i) ==
    LET line == ReadLine(f, i)
    IN  IF line.eof THEN FALSE
        ELSE IF StartsWith(line, 1) \/ StartsWith(line, 2)
             THEN i + 2 > Len(f) \/ EndsMidCard(f, i + 3)
        ELSE IF StartsWith(line, 4) THEN EndsMidCard(f, i + 2)
        ELSE EndsMidCard(f, i + 1)

(* C9: when the geometry stream ends in the middle of a node card or of an *)
(* element card, read_pat_buffer aborts with an error and returns no mesh. *)
C9_TruncatedCardFails ==
    (status # "init" /\ EndsMidCard(patfile, 1)) => status = "failed"

\* the first non-blank field of line is the integer d
FieldIs(line, d) == ~line.eof /\ Len(line.toks) >= 1 /\ line.toks[1] = d

RECURSIVE FieldScan(_, _, _)
\* the global IDs of the cards of stream f from position i on, when each
\* line is classified by its first non-blank field: a node card and an
\* element card take two further lines, a skip card one, any other line none
FieldScan(f, i, acc) ==
    LET line == ReadLine(f, i)
    IN  IF line.eof THEN acc
        ELSE IF FieldIs(line, 1) /\ Len(line.toks) >= 2
             THEN FieldScan(f, i + 3,
                     [acc EXCEPT !.point_gids = Append(@, line.toks[2])])
        ELSE IF /\ FieldIs(line, 2) /\ Len(line.toks) >= 3
                /\ line.toks[3] \in DOMAIN pat_to_meshio_type
             THEN FieldScan(f, i + 3,
                     [acc EXCEPT !.elems =
                         Append(@, <<pat_to_meshio_type[line.toks[3]], line.toks[2]>>)])
        ELSE IF FieldIs(line, 4) THEN FieldScan(f, i + 2, acc)
        ELSE FieldScan(f, i + 1, acc)

ByField == FieldScan(patfile, 1, [point_gids |-> << >>, elems |-> << >>])

RECURSIVE GidsOfType(_, _)
GidsOfType(elems, key) ==
    IF elems = << >> THEN << >>
    ELSE (IF Head(elems)[1] = key THEN << Head(elems)[2] >> ELSE << >>)
            \o GidsOfType(Tail(elems), key)

(* C11: read_pat_buffer classifies each card line by its first non-blank   *)
(* field, whatever the leading whitespace: node card iff the field is 1,   *)
(* element card iff 2, skip card iff 4, and a line with any other first    *)
(* field (10, 25, ...) adds no point, no cell, no global ID and consumes   *)
(* no further line. So a returned mesh has one point and one point ID per  *)
(* line of field 1, and one cell and one element ID per line of field 2.   *)
C11_ClassifiedByField ==
    status = "ok" =>
        /\ point_gids = ByField.point_gids
        /\ Len(points) = Len(ByField.point_gids)
        /\ DOMAIN element_gids = { ByField.elems[k][1] : k \in 1..Len(ByField.elems) }
        /\ \A key \in DOMAIN element_gids :
              element_gids[key] = GidsOfType(ByField.elems, key)

====
